---- MODULE Spec2Model ----
(***************************************************************************)
(* Quaternion arithmetic of src/lib.rs over a scaled-down IEEE-754 binary   *)
(* floating-point format.                                                   *)
(*                                                                          *)
(* The library computes over f64 (53-bit significand, exponents -1022 to    *)
(* 1023).  The model keeps every rule of IEEE-754 arithmetic that the       *)
(* library's results depend on -- round-to-nearest-even after each          *)
(* operation, gradual underflow (subnormals), overflow to infinity, signed  *)
(* zeros, infinities and NaN -- over a format with a P-bit significand and  *)
(* exponents -W .. W.                                                       *)
(*                                                                          *)
(* A float is a record [k, s, m]:                                           *)
(*   k = "nan"                       not a number (s = 0, m = 0)            *)
(*   k = "inf", s = 0 or 1           +infinity or -infinity (m = 0)         *)
(*   k = "fin", s = 0 or 1, m >= 0   the number (-1)^s * m * 2^(-E),        *)
(*                                   m in units of the smallest subnormal   *)
(***************************************************************************)
EXTENDS Integers, Sequences, FiniteSets, TLC

\* Significand width in bits (f64: 53).
P == 7
\* Largest binary exponent of a normal number; the smallest is -W (f64: 1023).
W == 5
\* Integer components of the input quaternions range over -MaxInt .. MaxInt.
MaxInt == 2

(***************************************************************************)
(* Integer helpers.                                                         *)
(***************************************************************************)
RECURSIVE Pow2(_)
Pow2(n) == IF n <= 0 THEN 1 ELSE 2 * Pow2(n - 1)

\* Number of bits of n (0 for n = 0).
RECURSIVE BitLen(_)
BitLen(n) == IF n <= 0 THEN 0 ELSE 1 + BitLen(n \div 2)

\* Number of trailing zero bits of n > 0.
RECURSIVE TrailZ(_)
TrailZ(n) == IF n <= 0 \/ n % 2 = 1 THEN 0 ELSE 1 + TrailZ(n \div 2)

\* Integer square root: the largest r with r*r <= n.
RECURSIVE ISqrt(_)
ISqrt(n) ==
    IF n < 2 THEN n
    ELSE LET r == 2 * ISqrt(n \div 4)
         IN  IF (r + 1) * (r + 1) <= n THEN r + 1 ELSE r

Max2(x, y) == IF x >= y THEN x ELSE y

(***************************************************************************)
(* The floating-point format.                                               *)
(***************************************************************************)
\* 1.0 is 2^E units: the smallest subnormal is 2^(-W - (P - 1)).
E == W + P - 1
\* Bit length of the largest finite magnitude, (2^P - 1) * 2^(2W) units.
TopBits == P + 2 * W
MaxMag == (Pow2(P) - 1) * Pow2(2 * W)
\* Smallest normal magnitude, 2^(-W), in units.
MinNormal == Pow2(P - 1)

NaN == [k |-> "nan", s |-> 0, m |-> 0]
Inf(s) == [k |-> "inf", s |-> s, m |-> 0]
Fin(s, m) == [k |-> "fin", s |-> s, m |-> m]
Zero(s) == Fin(s, 0)

IsNaN(x) == x.k = "nan"
IsInf(x) == x.k = "inf"
IsFinite(x) == x.k = "fin"
IsZero(x) == x.k = "fin" /\ x.m = 0
\* A normal number: finite, and at least 2^(-W) in magnitude.
IsNormal(x) == x.k = "fin" /\ x.m >= MinNormal

Xor(s1, s2) == IF s1 = s2 THEN 0 ELSE 1

\* The float nearest to (-1)^s * n * 2^t units (n >= 0, t any integer), ties to
\* the even significand; infinity when the rounded magnitude exceeds MaxMag.
RoundScaled(s, n, t) ==
    IF n = 0 THEN Zero(s)
    ELSE LET len == BitLen(n)
             \* exponent of the rounding quantum: 0 in the subnormal range
             g == Max2(0, len + t - P)
         IN  IF g <= t
             THEN IF len + t > TopBits THEN Inf(s) ELSE Fin(s, n * Pow2(t))
             ELSE LET sh == g - t
                  IN  IF sh > len THEN Zero(s)
                      ELSE LET q == n \div Pow2(sh)
                               r == n % Pow2(sh)
                               half == Pow2(sh - 1)
                               up == r > half \/ (r = half /\ q % 2 = 1)
                               q1 == IF up THEN q + 1 ELSE q
                           IN  IF q1 = 0 THEN Zero(s)
                               ELSE IF BitLen(q1) + g > TopBits THEN Inf(s)
                               ELSE Fin(s, q1 * Pow2(g))

\* An integer as a float (exact for the small integers the model uses).
FromInt(i) == IF i < 0 THEN RoundScaled(1, -i, E) ELSE RoundScaled(0, i, E)

\* -x
FNeg(x) == IF IsNaN(x) THEN NaN ELSE [x EXCEPT !.s = 1 - x.s]

\* x.abs()
FAbs(x) == IF IsNaN(x) THEN NaN ELSE [x EXCEPT !.s = 0]

\* x + y
FAdd(x, y) ==
    IF IsNaN(x) \/ IsNaN(y) THEN NaN
    ELSE IF IsInf(x) /\ IsInf(y) THEN (IF x.s = y.s THEN x ELSE NaN)
    ELSE IF IsInf(x) THEN x
    ELSE IF IsInf(y) THEN y
    ELSE LET vx == IF x.s = 1 THEN -x.m ELSE x.m
             vy == IF y.s = 1 THEN -y.m ELSE y.m
             v == vx + vy
         IN  IF v = 0 THEN Zero(IF x.s = 1 /\ y.s = 1 THEN 1 ELSE 0)
             ELSE IF v < 0 THEN RoundScaled(1, -v, 0)
             ELSE RoundScaled(0, v, 0)

\* x - y
FSub(x, y) == FAdd(x, FNeg(y))

\* x * y
FMul(x, y) ==
    IF IsNaN(x) \/ IsNaN(y) THEN NaN
    ELSE IF (IsInf(x) /\ IsZero(y)) \/ (IsZero(x) /\ IsInf(y)) THEN NaN
    ELSE IF IsInf(x) \/ IsInf(y) THEN Inf(Xor(x.s, y.s))
    ELSE IF x.m = 0 \/ y.m = 0 THEN Zero(Xor(x.s, y.s))
    ELSE LET tx == TrailZ(x.m)
             ty == TrailZ(y.m)
             kx == x.m \div Pow2(tx)
             ky == y.m \div Pow2(ty)
         IN  RoundScaled(Xor(x.s, y.s), kx * ky, tx + ty - E)

\* x / y
FDiv(x, y) ==
    IF IsNaN(x) \/ IsNaN(y) THEN NaN
    ELSE IF (IsInf(x) /\ IsInf(y)) \/ (IsZero(x) /\ IsZero(y)) THEN NaN
    ELSE IF IsInf(x) \/ IsZero(y) THEN Inf(Xor(x.s, y.s))
    ELSE IF IsInf(y) \/ IsZero(x) THEN Zero(Xor(x.s, y.s))
    ELSE LET tx == TrailZ(x.m)
             ty == TrailZ(y.m)
             kx == x.m \div Pow2(tx)
             ky == y.m \div Pow2(ty)
             \* widen the dividend to 2P+2 bits: the quotient has at least P+2
             c == 2 * P + 2 - BitLen(kx)
             n == kx * Pow2(c)
             q == n \div ky
             sticky == IF n % ky = 0 THEN 0 ELSE 1
         IN  RoundScaled(Xor(x.s, y.s), 2 * q + sticky, tx - c - ty + E - 1)

\* x.sqrt()
FSqrt(x) ==
    IF IsNaN(x) THEN NaN
    ELSE IF IsZero(x) THEN x
    ELSE IF x.s = 1 THEN NaN
    ELSE IF IsInf(x) THEN x
    ELSE LET t0 == TrailZ(x.m)
             k0 == x.m \div Pow2(t0)
             \* sqrt(m * 2^(-E)) = sqrt(m * 2^E) units; make the exponent even
             odd == (t0 + E) % 2 = 1
             k1 == IF odd THEN 2 * k0 ELSE k0
             e1 == IF odd THEN t0 + E - 1 ELSE t0 + E
             need == 2 * P + 3 - BitLen(k1)
             j == IF need <= 0 THEN 0 ELSE (need + 1) \div 2
             n == k1 * Pow2(2 * j)
             r == ISqrt(n)
             sticky == IF r * r = n THEN 0 ELSE 1
         IN  RoundScaled(0, 2 * r + sticky, (e1 \div 2) - j - 1)

\* x == y on f64: NaN equals nothing, +0 equals -0.
FEq(x, y) ==
    /\ ~IsNaN(x)
    /\ ~IsNaN(y)
    /\ \/ IsInf(x) /\ IsInf(y) /\ x.s = y.s
       \/ IsFinite(x) /\ IsFinite(y) /\ x.m = 0 /\ y.m = 0
       \/ IsFinite(x) /\ IsFinite(y) /\ x.s = y.s /\ x.m = y.m

\* x < y on f64: false when either is NaN.
FLt(x, y) ==
    /\ ~IsNaN(x)
    /\ ~IsNaN(y)
    /\ ~FEq(x, y)
    /\ \/ IsInf(x) /\ x.s = 1
       \/ IsInf(y) /\ y.s = 0
       \/ /\ IsFinite(x)
          /\ IsFinite(y)
          /\ (IF x.s = 1 THEN -x.m ELSE x.m) < (IF y.s = 1 THEN -y.m ELSE y.m)

\* x >= y on f64: false when either is NaN.
FGe(x, y) == ~IsNaN(x) /\ ~IsNaN(y) /\ ~FLt(x, y)

(***************************************************************************)
(* src/lib.rs                                                               *)
(***************************************************************************)
\* pub static DEFAULT_TOLERANCE: f64 = 1e-8.  1e-8 lies between 2^(-27) and
\* 2^(-26), half the significand width of f64 below 1.0; the model keeps the
\* tolerance at that place of its own significand: 2^(-(P \div 2)).
DEFAULT_TOLERANCE == Fin(0, Pow2(E - (P \div 2)))

\* struct Quaternion { qr, qi, qj, qk } and Quaternion::new
new(qr, qi, qj, qk) == [qr |-> qr, qi |-> qi, qj |-> qj, qk |-> qk]

real(q) == q.qr

imaginary(q) == <<q.qi, q.qj, q.qk>>

\* square_norm with the qk term left out.
square_norm_without_qk(q) ==
    FAdd(FAdd(FMul(q.qr, q.qr), FMul(q.qi, q.qi)), FMul(q.qj, q.qj))

square_norm(q) ==
    FAdd(FAdd(FAdd(FMul(q.qr, q.qr), FMul(q.qi, q.qi)), FMul(q.qj, q.qj)),
         FMul(q.qk, q.qk))

\* conjugate that leaves qk as it is.
conjugate_keeps_qk(q) == new(q.qr, FNeg(q.qi), FNeg(q.qj), q.qk)

conjugate(q) == new(q.qr, FNeg(q.qi), FNeg(q.qj), FNeg(q.qk))

\* inverse that scales q itself instead of its conjugate.
inverse_without_conjugate(q) ==
    LET inverse_scalar == FDiv(FromInt(1), square_norm(q))
    IN  new(FMul(q.qr, inverse_scalar),
            FMul(q.qi, inverse_scalar),
            FMul(q.qj, inverse_scalar),
            FMul(q.qk, inverse_scalar))

inverse(q) ==
    LET q_conjugate == conjugate(q)
        inverse_scalar == FDiv(FromInt(1), square_norm(q))
    IN  new(FMul(q_conjugate.qr, inverse_scalar),
            FMul(q_conjugate.qi, inverse_scalar),
            FMul(q_conjugate.qj, inverse_scalar),
            FMul(q_conjugate.qk, inverse_scalar))

norm(q) == FSqrt(square_norm(q))

\* normalized that divides by the square norm instead of the norm.
normalized_by_square_norm(q) ==
    LET n == square_norm(q)
    IN  [qr |-> FDiv(q.qr, n), qi |-> FDiv(q.qi, n),
         qj |-> FDiv(q.qj, n), qk |-> FDiv(q.qk, n)]

\* normalized that returns a zero-norm quaternion unchanged.
normalized_guarding_zero(q) ==
    LET n == FSqrt(square_norm(q))
    IN  IF IsZero(n) THEN q
        ELSE [qr |-> FDiv(q.qr, n), qi |-> FDiv(q.qi, n),
              qj |-> FDiv(q.qj, n), qk |-> FDiv(q.qk, n)]

normalized(q) ==
    LET n == norm(q)
    IN  [qr |-> FDiv(q.qr, n), qi |-> FDiv(q.qi, n),
         qj |-> FDiv(q.qj, n), qk |-> FDiv(q.qk, n)]

\* add whose last component takes other.qj.
add_with_wrong_field(self, other) ==
    new(FAdd(self.qr, other.qr),
        FAdd(self.qi, other.qi),
        FAdd(self.qj, other.qj),
        FAdd(self.qk, other.qj))

\* impl Add for Quaternion
add(self, other) ==
    new(FAdd(self.qr, other.qr),
        FAdd(self.qi, other.qi),
        FAdd(self.qj, other.qj),
        FAdd(self.qk, other.qk))

\* mul with the sign of the qi*qk term of the j component flipped.
mul_with_sign_slip(self, other) ==
    LET qr == FSub(FSub(FSub(FMul(self.qr, other.qr), FMul(self.qi, other.qi)),
                        FMul(self.qj, other.qj)), FMul(self.qk, other.qk))
        qi == FSub(FAdd(FAdd(FMul(self.qr, other.qi), FMul(self.qi, other.qr)),
                        FMul(self.qj, other.qk)), FMul(self.qk, other.qj))
        qj == FAdd(FAdd(FAdd(FMul(self.qr, other.qj), FMul(self.qi, other.qk)),
                        FMul(self.qj, other.qr)), FMul(self.qk, other.qi))
        qk == FAdd(FSub(FAdd(FMul(self.qr, other.qk), FMul(self.qi, other.qj)),
                        FMul(self.qj, other.qi)), FMul(self.qk, other.qr))
    IN  new(qr, qi, qj, qk)

\* impl Mul for Quaternion
mul(self, other) ==
    LET qr == FSub(FSub(FSub(FMul(self.qr, other.qr), FMul(self.qi, other.qi)),
                        FMul(self.qj, other.qj)), FMul(self.qk, other.qk))
        qi == FSub(FAdd(FAdd(FMul(self.qr, other.qi), FMul(self.qi, other.qr)),
                        FMul(self.qj, other.qk)), FMul(self.qk, other.qj))
        qj == FAdd(FAdd(FSub(FMul(self.qr, other.qj), FMul(self.qi, other.qk)),
                        FMul(self.qj, other.qr)), FMul(self.qk, other.qi))
        qk == FAdd(FSub(FAdd(FMul(self.qr, other.qk), FMul(self.qi, other.qj)),
                        FMul(self.qj, other.qi)), FMul(self.qk, other.qr))
    IN  new(qr, qi, qj, qk)

\* scalar product that leaves qk unscaled.
mul_scalar_skips_qk(self, s) ==
    new(FMul(self.qr, s), FMul(self.qi, s), FMul(self.qj, s), self.qk)

\* impl Mul<f64> for Quaternion
mul_scalar(self, s) ==
    new(FMul(self.qr, s), FMul(self.qi, s), FMul(self.qj, s), FMul(self.qk, s))

\* scalar division without the negation of the imaginary parts.
div_without_negation(self, other) ==
    new(FDiv(self, other.qr),
        FDiv(self, other.qi),
        FDiv(self, other.qj),
        FDiv(self, other.qk))

\* impl Div<Quaternion> for f64
div(self, other) ==
    new(FDiv(self, other.qr),
        FDiv(FNeg(self), other.qi),
        FDiv(FNeg(self), other.qj),
        FDiv(FNeg(self), other.qk))

\* equality that compares magnitudes only.
eq_ignoring_sign(self, other) ==
    /\ FEq(FAbs(self.qr), FAbs(other.qr))
    /\ FEq(FAbs(self.qi), FAbs(other.qi))
    /\ FEq(FAbs(self.qj), FAbs(other.qj))
    /\ FEq(FAbs(self.qk), FAbs(other.qk))

\* impl PartialEq for Quaternion
eq(self, other) ==
    /\ FEq(self.qr, other.qr)
    /\ FEq(self.qi, other.qi)
    /\ FEq(self.qj, other.qj)
    /\ FEq(self.qk, other.qk)

(***************************************************************************)
(* Inputs.                                                                  *)
(***************************************************************************)
One == FromInt(1)
Half == FDiv(One, FromInt(2))
Third == FDiv(One, FromInt(3))
\* The smallest positive subnormal: its square underflows to zero.
Tiny == Fin(0, 1)
\* 2^(1-W): normal, with a subnormal square.
Small == Fin(0, Pow2(P))
\* The largest finite number: its square overflows.
Huge == Fin(0, MaxMag)

IntVals == {FromInt(i) : i \in (0 - MaxInt) .. MaxInt}
EdgeVals == {Zero(0), One, Tiny, Small, FNeg(Huge), Inf(0), NaN}

QuatsOver(S) == {new(w, x, y, z) : w \in S, x \in S, y \in S, z \in S}

\* The quaternions of the tests (test_add, test_conjugate, test_inverse, ...).
Q1234 == new(FromInt(1), FromInt(2), FromInt(3), FromInt(4))
QHalf == new(Half, Half, Half, Half)
Q0 == new(Zero(0), Zero(0), Zero(0), Zero(0))
QOne == new(One, Zero(0), Zero(0), Zero(0))
QI == new(Zero(0), One, Zero(0), Zero(0))
QJ == new(Zero(0), Zero(0), One, Zero(0))
QK == new(Zero(0), Zero(0), Zero(0), One)

\* First operands: every quaternion over the small integers and over the edge
\* values of the format.
QA == QuatsOver(IntVals) \cup QuatsOver(EdgeVals) \cup {Q1234}
\* Second operands.
QB == {QOne, QI, QJ, QK, Q1234, QHalf,
       new(Third, FNeg(One), FNeg(Third), FromInt(2)),
       new(FNeg(Huge), Small, Tiny, Zero(1)),
       new(Inf(1), One, Zero(0), NaN)}
\* Scalars.
PS == {Zero(0), Zero(1), One, FromInt(-2), Half, Third, Tiny, Huge, Inf(0), NaN}

VARIABLES a, b, p, op, res, val
vars == <<a, b, p, op, res, val>>

\* a: the quaternion the operation is called on; b: the other quaternion
\* operand; p: the f64 operand; op: the call made last; res: the quaternion it
\* returned; val: the f64 it returned.
InitUnary ==
    /\ a \in QA
    /\ b = Q0
    /\ p = Zero(0)
    /\ op = "new"
    /\ res = Q0
    /\ val = Zero(0)

InitPair ==
    /\ a \in QA
    /\ b \in QB
    /\ p = Zero(0)
    /\ op = "new"
    /\ res = Q0
    /\ val = Zero(0)

InitScalar ==
    /\ a \in QA
    /\ b = Q0
    /\ p \in PS
    /\ op = "new"
    /\ res = Q0
    /\ val = Zero(0)

\* a.square_norm()
SquareNorm ==
    /\ op = "new"
    /\ op' = "square_norm"
    /\ val' = square_norm(a)
    /\ UNCHANGED <<a, b, p, res>>

\* a.norm()
Norm ==
    /\ op = "new"
    /\ op' = "norm"
    /\ val' = norm(a)
    /\ UNCHANGED <<a, b, p, res>>

\* a.conjugate()
Conjugate ==
    /\ op = "new"
    /\ op' = "conjugate"
    /\ res' = conjugate(a)
    /\ UNCHANGED <<a, b, p, val>>

\* a.inverse()
Inverse ==
    /\ op = "new"
    /\ op' = "inverse"
    /\ res' = inverse(a)
    /\ UNCHANGED <<a, b, p, val>>

\* a * a.inverse(): the product of a with the inverse just returned
MulInverse ==
    /\ op = "inverse"
    /\ op' = "mul_inverse"
    /\ res' = mul(a, res)
    /\ UNCHANGED <<a, b, p, val>>

\* a.normalized()
Normalized ==
    /\ op = "new"
    /\ op' = "normalized"
    /\ res' = normalized(a)
    /\ UNCHANGED <<a, b, p, val>>

\* a.normalized().norm(): the norm of the quaternion just returned
NormalizedNorm ==
    /\ op = "normalized"
    /\ op' = "normalized_norm"
    /\ val' = norm(res)
    /\ UNCHANGED <<a, b, p, res>>

\* a + b
Add ==
    /\ op = "new"
    /\ op' = "add"
    /\ res' = add(a, b)
    /\ UNCHANGED <<a, b, p, val>>

\* a * b
Mul ==
    /\ op = "new"
    /\ op' = "mul"
    /\ res' = mul(a, b)
    /\ UNCHANGED <<a, b, p, val>>

\* a * p
MulScalar ==
    /\ op = "new"
    /\ op' = "mul_scalar"
    /\ res' = mul_scalar(a, p)
    /\ UNCHANGED <<a, b, p, val>>

\* p / a
Div ==
    /\ op = "new"
    /\ op' = "div"
    /\ res' = div(p, a)
    /\ UNCHANGED <<a, b, p, val>>

NextUnary ==
    \/ SquareNorm
    \/ Norm
    \/ Conjugate
    \/ Inverse
    \/ MulInverse
    \/ Normalized
    \/ NormalizedNorm

NextPair ==
    \/ Add
    \/ Mul

NextScalar ==
    \/ MulScalar
    \/ Div

SpecUnary == InitUnary /\ [][NextUnary]_vars
SpecPair == InitPair /\ [][NextPair]_vars
SpecScalar == InitScalar /\ [][NextScalar]_vars
(***************************************************************************)
(* Properties.                                                              *)
(***************************************************************************)
Components(q) == {q.qr, q.qi, q.qj, q.qk}
FiniteQ(q) == \A c \in Components(q) : IsFinite(c)
NoNaNQ(q) == \A c \in Components(q) : ~IsNaN(c)
AllZeroQ(q) == \A c \in Components(q) : IsZero(c)
\* (x - y).abs() < DEFAULT_TOLERANCE, the comparison of test_normalized
Near(x, y) == FLt(FAbs(FSub(x, y)), DEFAULT_TOLERANCE)
NearIdentity(q) ==
    /\ Near(q.qr, One)
    /\ Near(q.qi, Zero(0))
    /\ Near(q.qj, Zero(0))
    /\ Near(q.qk, Zero(0))
\* The Hamilton product of x (left) and y (right), term by term.
Hamilton(x, y) ==
    [qr |-> FSub(FSub(FSub(FMul(x.qr, y.qr), FMul(x.qi, y.qi)), FMul(x.qj, y.qj)),
                 FMul(x.qk, y.qk)),
     qi |-> FSub(FAdd(FAdd(FMul(x.qr, y.qi), FMul(x.qi, y.qr)), FMul(x.qj, y.qk)),
                 FMul(x.qk, y.qj)),
     qj |-> FAdd(FAdd(FSub(FMul(x.qr, y.qj), FMul(x.qi, y.qk)), FMul(x.qj, y.qr)),
                 FMul(x.qk, y.qi)),
     qk |-> FAdd(FSub(FAdd(FMul(x.qr, y.qk), FMul(x.qi, y.qj)), FMul(x.qj, y.qi)),
                 FMul(x.qk, y.qr))]
MinusOne == FromInt(-1)
QMinusOne == [qr |-> MinusOne, qi |-> Zero(0), qj |-> Zero(0), qk |-> Zero(0)]
QMinusK == [qr |-> Zero(0), qi |-> Zero(0), qj |-> Zero(0), qk |-> MinusOne]
\* Component-wise equality of f64 values, written out.
SameNumbers(x, y) ==
    FEq(x.qr, y.qr) /\ FEq(x.qi, y.qi) /\ FEq(x.qj, y.qj) /\ FEq(x.qk, y.qk)

\* C1: a * b is the Hamilton product with a on the left, component by
\* component, and the products of the basis elements obey i*i = j*j = k*k = -1,
\* i*j = k, j*k = i, k*i = j.
C1_HamiltonProduct ==
    op = "mul" =>
        /\ res = Hamilton(a, b)
        /\ (a = QI /\ b = QI => SameNumbers(res, QMinusOne))
        /\ (a = QJ /\ b = QJ => SameNumbers(res, QMinusOne))
        /\ (a = QK /\ b = QK => SameNumbers(res, QMinusOne))
        /\ (a = QI /\ b = QJ => SameNumbers(res, QK))
        /\ (a = QJ /\ b = QK => SameNumbers(res, QI))
        /\ (a = QK /\ b = QI => SameNumbers(res, QJ))

\* A product of two basis elements, k * i, has been computed and is j.
C1_Witness == op = "mul" /\ a = QK /\ b = QI /\ SameNumbers(res, QJ)

\* C2: multiplication does not commute: i * j is (0,0,0,1), j * i is
\* (0,0,0,-1), and the two products are unequal under ==.
C2_NonCommutative ==
    /\ (op = "mul" /\ a = QI /\ b = QJ) =>
           (eq(res, QK) /\ ~eq(res, mul(b, a)))
    /\ (op = "mul" /\ a = QJ /\ b = QI) =>
           (eq(res, QMinusK) /\ ~eq(res, mul(b, a)))

\* j * i has been computed, is -k, and differs from i * j.
C2_Witness ==
    op = "mul" /\ a = QJ /\ b = QI /\ res.qk = MinusOne /\ ~eq(res, mul(QI, QJ))

\* C3 as stated: for every finite non-zero a, a * a.inverse() is within the
\* tolerance of (1, 0, 0, 0).
C3_AsStated ==
    (op = "mul_inverse" /\ FiniteQ(a) /\ ~AllZeroQ(a)) => NearIdentity(res)

\* C3 amended: for every finite a whose square norm is a finite normal number
\* (it neither overflows nor underflows), a * a.inverse() is within the
\* tolerance of (1, 0, 0, 0).
C3_InverseIsIdentity ==
    (op = "mul_inverse" /\ FiniteQ(a) /\ IsNormal(square_norm(a))) =>
        NearIdentity(res)

\* a * a.inverse() has been computed for a quaternion with four non-zero
\* components whose reciprocal square norm is rounded.
C3_Witness ==
    op = "mul_inverse" /\ a = Q1234 /\ NearIdentity(res) /\ res.qr # Zero(0)

\* C4: for every q with non-zero square norm, q.inverse() is the conjugate
\* (qr, -qi, -qj, -qk) with each component multiplied by 1/square_norm(q);
\* the square norm of (1,2,3,4) is 30 and its inverse is (1/30, -2/30, -3/30,
\* -4/30) up to the rounding of the products.
C4_InverseFormula ==
    op = "inverse" =>
        /\ ~FEq(square_norm(a), Zero(0)) =>
               LET r == FDiv(One, square_norm(a))
               IN  res = [qr |-> FMul(a.qr, r),
                          qi |-> FMul(FNeg(a.qi), r),
                          qj |-> FMul(FNeg(a.qj), r),
                          qk |-> FMul(FNeg(a.qk), r)]
        /\ a = Q1234 =>
               /\ square_norm(a) = FromInt(30)
               /\ res.qr = FDiv(One, FromInt(30))
               /\ res.qi = FDiv(FromInt(-2), FromInt(30))
               /\ Near(res.qj, FDiv(FromInt(-3), FromInt(30)))
               /\ res.qk = FDiv(FromInt(-4), FromInt(30))

\* The inverse of (1,2,3,4) has been computed.
C4_Witness ==
    op = "inverse" /\ a = Q1234 /\ res.qr = FDiv(One, FromInt(30)) /\ res.qi.s = 1

\* C5 as stated: for every finite non-zero a, a.norm() is
\* sqrt(a.square_norm()) and the norm of a.normalized() is within
\* DEFAULT_TOLERANCE of 1.
C5_AsStated ==
    /\ (op = "norm" /\ FiniteQ(a) /\ ~AllZeroQ(a)) =>
           val = FSqrt(square_norm(a))
    /\ (op = "normalized_norm" /\ FiniteQ(a) /\ ~AllZeroQ(a)) =>
           Near(One, val)

\* C5 amended: for every finite non-zero a, a.norm() is sqrt(a.square_norm());
\* for every finite a whose square norm is a finite normal number (it neither
\* overflows nor underflows), the norm of a.normalized() is within
\* DEFAULT_TOLERANCE of 1.
C5_NormalizedHasUnitNorm ==
    /\ (op = "norm" /\ FiniteQ(a) /\ ~AllZeroQ(a)) =>
           val = FSqrt(square_norm(a))
    /\ (op = "normalized_norm" /\ FiniteQ(a) /\ IsNormal(square_norm(a))) =>
           Near(One, val)

\* The norm of the normalized (1,2,3,4) has been computed, as in
\* test_normalized.
C5_Witness == op = "normalized_norm" /\ a = Q1234 /\ Near(One, val)

\* C6 as stated: for every q, square_norm(q) >= 0, and square_norm(q) and
\* norm(q) are 0 only for the all-zero quaternion.
C6_AsStated ==
    /\ op = "square_norm" =>
           (FGe(val, Zero(0)) /\ (FEq(val, Zero(0)) => AllZeroQ(a)))
    /\ op = "norm" => (FEq(val, Zero(0)) => AllZeroQ(a))

\* C6 amended: square_norm(q) is qr*qr + qi*qi + qj*qj + qk*qk; for every q
\* without a NaN component it is >= 0; square_norm(q) and norm(q) are 0 only
\* when every component of q is zero or so small that its square underflows
\* to zero.
C6_SquareNormSign ==
    /\ op = "square_norm" =>
           /\ val = FAdd(FAdd(FAdd(FMul(a.qr, a.qr), FMul(a.qi, a.qi)),
                              FMul(a.qj, a.qj)), FMul(a.qk, a.qk))
           /\ NoNaNQ(a) => FGe(val, Zero(0))
           /\ FEq(val, Zero(0)) => \A c \in Components(a) : IsZero(FMul(c, c))
    /\ op = "norm" =>
           (FEq(val, Zero(0)) => \A c \in Components(a) : IsZero(FMul(c, c)))

\* The square norm of a quaternion with a single non-zero component has been
\* computed and is positive.
C6_Witness ==
    /\ op = "square_norm"
    /\ a = QK
    /\ val = One

\* C7: p / a is (p/qr, -p/qi, -p/qj, -p/qk), component by component, and it is
\* not inverse(a) * p: for a = (1,2,3,4), whose components are all non-zero,
\* and p = 1 the two differ.
C7_ScalarDivision ==
    op = "div" =>
        /\ res = [qr |-> FDiv(p, a.qr),
                  qi |-> FNeg(FDiv(p, a.qi)),
                  qj |-> FNeg(FDiv(p, a.qj)),
                  qk |-> FNeg(FDiv(p, a.qk))]
        /\ (a = Q1234 /\ p = One) => ~eq(res, mul_scalar(inverse(a), p))

\* 1 / (1,2,3,4) has been computed and differs from the inverse scaled by 1.
C7_Witness ==
    /\ op = "div"
    /\ a = Q1234
    /\ p = One
    /\ res.qi = FNeg(Half)
    /\ ~eq(res, mul_scalar(inverse(a), p))

\* C8: for all finite a and b, a + b has the component-wise sums and equals
\* b + a under ==.
C8_AddCommutes ==
    (op = "add" /\ FiniteQ(a) /\ FiniteQ(b)) =>
        /\ res = [qr |-> FAdd(a.qr, b.qr),
                  qi |-> FAdd(a.qi, b.qi),
                  qj |-> FAdd(a.qj, b.qj),
                  qk |-> FAdd(a.qk, b.qk)]
        /\ eq(res, add(b, a))

\* The sum of test_add, (1,2,3,4) + (0.5,0.5,0.5,0.5), has been computed.
C8_Witness ==
    /\ op = "add"
    /\ a = Q1234
    /\ b = QHalf
    /\ res.qk = FAdd(FromInt(4), Half)
    /\ eq(res, add(b, a))

\* C9: on the all-zero quaternion normalized() returns four NaN components and
\* inverse() returns components none of which is finite; neither fails.
C9_DegenerateInputs ==
    /\ (op = "normalized" /\ a = Q0) => \A c \in Components(res) : IsNaN(c)
    /\ (op = "inverse" /\ a = Q0) => \A c \in Components(res) : ~IsFinite(c)

\* normalized() has returned for the all-zero quaternion.
C9_Witness == op = "normalized" /\ a = Q0 /\ IsNaN(res.qr)

\* C10 as stated: for every a and p, a * p is (qr*p, qi*p, qj*p, qk*p) and
\* equals, under ==, the quaternion products of a with (p,0,0,0) in both orders.
C10_AsStated ==
    op = "mul_scalar" =>
        /\ res = [qr |-> FMul(a.qr, p), qi |-> FMul(a.qi, p),
                  qj |-> FMul(a.qj, p), qk |-> FMul(a.qk, p)]
        /\ eq(res, mul(a, new(p, Zero(0), Zero(0), Zero(0))))
        /\ eq(res, mul(new(p, Zero(0), Zero(0), Zero(0)), a))

\* C10 amended: for every a and p, a * p is (qr*p, qi*p, qj*p, qk*p); for every
\* finite a and finite p it equals, under ==, the quaternion products of a with
\* (p,0,0,0) in both orders.
C10_ScalarProduct ==
    op = "mul_scalar" =>
        /\ res = [qr |-> FMul(a.qr, p), qi |-> FMul(a.qi, p),
                  qj |-> FMul(a.qj, p), qk |-> FMul(a.qk, p)]
        /\ (FiniteQ(a) /\ IsFinite(p)) =>
               /\ eq(res, mul(a, new(p, Zero(0), Zero(0), Zero(0))))
               /\ eq(res, mul(new(p, Zero(0), Zero(0), Zero(0)), a))

\* (1,2,3,4) * (1/3) has been computed: every product is rounded.
C10_Witness ==
    /\ op = "mul_scalar"
    /\ a = Q1234
    /\ p = Third
    /\ eq(res, mul(a, new(p, Zero(0), Zero(0), Zero(0))))
====
